---- MODULE Spec2Model ----
(***************************************************************************)
(* Model of the invoice OCR pipeline of ocr_service.py (response           *)
(* extraction, page-range formatting, page orchestration, flattening and   *)
(* aggregation) and of its callers in main.py / app.py.                    *)
(*                                                                         *)
(* Four specifications share the variables below; each one drives one part *)
(* of the program and leaves the variables of the other parts idle.        *)
(*   SpecFmt   format_page_ranges on arbitrary page collections            *)
(*   SpecJson  extract_and_clean_json on arbitrary token texts             *)
(*   SpecOcr   run_ocr_on_pdf and the three callers that unpack its result *)
(*   SpecDf    results_to_dataframe (flattening loop, then aggregation)    *)
(***************************************************************************)
EXTENDS Integers, Sequences, FiniteSets, TLC

VARIABLES
  pc,           \* position of the running function / handler
  pages,        \* format_page_ranges: the argument
  ranges_out,   \* format_page_ranges: the returned string
  text,         \* extract_and_clean_json: the argument (token sequence)
  json_out,     \* extract_and_clean_json: the outcome
  start_page, end_page, n_images,   \* run_ocr_on_pdf: arguments, len(images)
  idx,          \* run_ocr_on_pdf: loop index (page number)
  events,       \* run_ocr_on_pdf: trace of calls and sleeps
  all_results,  \* the list of per-page records
  caller,       \* which caller invoked run_ocr_on_pdf
  content_type, \* the content type of the uploaded file
  outcome,      \* what the caller / function ended with
  input0,       \* results_to_dataframe: the argument as it was at call time
  k,            \* results_to_dataframe: index of the flattening loop
  merged,       \* results_to_dataframe: the flat rows
  df_out        \* results_to_dataframe: the returned table or the exception

vars == <<pc, pages, ranges_out, text, json_out, start_page, end_page,
          n_images, idx, events, all_results, caller, content_type, outcome,
          input0, k, merged, df_out>>

fmtVars  == <<pages, ranges_out>>
jsonVars == <<text, json_out>>
ocrVars  == <<start_page, end_page, n_images, idx, events, caller,
             content_type, outcome>>
dfVars   == <<input0, k, merged, df_out>>

(***************************************************************************)
(* Bounds of the model                                                     *)
(***************************************************************************)
MaxPage == 4       \* page numbers range over 1..MaxPage
MaxPagesLen == 5   \* length of the page collection given to the formatter

(***************************************************************************)
(* Generic helpers                                                         *)
(***************************************************************************)
NaN == -1          \* a null / missing page entry (pd.notnull is false)
None == "None"     \* Python None in a string-valued position

SetMin(S) == CHOOSE x \in S : \A y \in S : x <= y

RECURSIVE sorted(_)
\* sorted(set(...)): the ascending list of a finite set of integers
sorted(S) ==
  IF S = {} THEN <<>>
  ELSE LET m == SetMin(S) IN <<m>> \o sorted(S \ {m})

(***************************************************************************)
(* Strings that the program builds and parses again (the Page column) are  *)
(* sequences of one-character strings; all other strings are atomic.       *)
(***************************************************************************)
DigitChars == <<"0", "1", "2", "3", "4", "5", "6", "7", "8", "9">>

RECURSIVE str(_)
\* str(n) / f"{n}" of a non-negative integer
str(n) ==
  IF n < 10 THEN <<DigitChars[n + 1]>>
  ELSE str(n \div 10) \o <<DigitChars[(n % 10) + 1]>>

RECURSIVE int_acc(_, _)
int_acc(acc, cs) ==
  IF cs = <<>> THEN acc
  ELSE int_acc(10 * acc + (CHOOSE d \in 0..9 : DigitChars[d + 1] = cs[1]),
               Tail(cs))
\* int(s) of a non-empty string of digits
int(cs) == int_acc(0, cs)

RECURSIVE join(_, _)
\* sep.join(strs) on character sequences
join(sep, strs) ==
  IF strs = <<>> THEN <<>>
  ELSE IF Len(strs) = 1 THEN strs[1]
  ELSE strs[1] \o sep \o join(sep, Tail(strs))

RECURSIVE split_first(_, _)
\* s.split(c)[0]: the characters of s before the first c
split_first(cs, c) ==
  IF cs = <<>> \/ cs[1] = c THEN <<>>
  ELSE <<cs[1]>> \o split_first(Tail(cs), c)

(***************************************************************************)
(* format_page_ranges                                                      *)
(***************************************************************************)
\* variant without the start == end case
fmt_range_always_span(start, end) == str(start) \o <<"-">> \o str(end)
\* the f-string of one run: f"{start}" if start == end else f"{start}-{end}"
fmt_range(start, end) ==
  IF start = end THEN str(start)
  ELSE str(start) \o <<"-">> \o str(end)

\* pages = sorted(set(int(p) for p in pages if pd.notnull(p)))
clean_pages(ps) == sorted({ps[i] : i \in {j \in DOMAIN ps : ps[j] # NaN}})

RECURSIVE range_loop(_, _, _, _, _)
\* the for loop over range(1, len(pages)) followed by the final append;
\* i is 1-based here, so the loop body reads ps[i] for i in 2..Len(ps)
range_loop(ps, i, start, end, ranges) ==
  IF i > Len(ps) THEN Append(ranges, fmt_range(start, end))
  ELSE IF ps[i] = end + 1
       THEN range_loop(ps, i + 1, start, ps[i], ranges)
       ELSE range_loop(ps, i + 1, ps[i], ps[i],
                       Append(ranges, fmt_range(start, end)))

format_page_ranges(ps) ==
  LET cp == clean_pages(ps) IN
  IF cp = <<>> THEN <<>>
  ELSE join(<<",", " ">>, range_loop(cp, 2, cp[1], cp[1], <<>>))

\* extract_first_page_number on a string: int(s.split(',')[0].split('-')[0]);
\* int('') raises ValueError, which is modelled by -1
extract_first_page_number(page_str) ==
  LET head == split_first(split_first(page_str, ","), "-") IN
  IF head = <<>> THEN -1 ELSE int(head)

(***************************************************************************)
(* extract_and_clean_json                                                  *)
(*                                                                         *)
(* A text is a sequence of tokens.  The tokens are the pieces of a model   *)
(* reply that the two regular expressions, the two repairs and the JSON    *)
(* grammar tell apart: the opening fence, the closing fence, the JSON      *)
(* punctuation, a quoted key with its colon, and a group of 1-3 digits.    *)
(***************************************************************************)
FenceJson == "<fence-json>"   \* three backquotes followed by json
Fence == "<fence>"            \* three backquotes
Key == "<key>:"               \* a quoted key and its colon
Digits == "234"
Tokens == {FenceJson, Fence, "{", "}", "[", "]", ",", Key, Digits}
Punct == {FenceJson, Fence, "{", "}", "[", "]", ",", Key}

MaxTextLen == 6    \* number of tokens of a reply text

RECURSIVE SeqsUpTo(_, _)
\* all sequences over S of length 0..n
SeqsUpTo(S, n) ==
  IF n = 0 THEN {<<>>}
  ELSE LET shorter == SeqsUpTo(S, n - 1) IN
       shorter \cup {Append(s, x) : s \in {t \in shorter : Len(t) = n - 1},
                                    x \in S}

\* re.search of the fenced pattern (json fence, an object taken lazily, closing
\* fence) with re.DOTALL: group(1), or <<>> when there is no match.  The
\* closing fence also matches the first three characters of a json fence.
fenced_span(t) ==
  LET opens == {i \in 1..Len(t) - 3 + 1 :
                  /\ t[i] = FenceJson /\ i + 1 <= Len(t) /\ t[i + 1] = "{"
                  /\ \E j \in i + 2..Len(t) - 1 :
                        t[j] = "}" /\ t[j + 1] \in {Fence, FenceJson}}
  IN IF opens = {} THEN <<>>
     ELSE LET i == SetMin(opens)
              j == SetMin({jj \in i + 2..Len(t) - 1 :
                             t[jj] = "}" /\ t[jj + 1] \in {Fence, FenceJson}})
          IN SubSeq(t, i + 1, j)

\* re.search(r"(\{.*\})", text, re.DOTALL): group(1), or <<>> when no match
brace_span(t) ==
  LET lefts == {i \in 1..Len(t) : t[i] = "{"} IN
  IF lefts = {} THEN <<>>
  ELSE LET i == SetMin(lefts)
           rights == {j \in i + 1..Len(t) : t[j] = "}"}
       IN IF rights = {} THEN <<>>
          ELSE SubSeq(t, i, CHOOSE j \in rights : \A j2 \in rights : j2 <= j)

\* match = re.search(fenced) or re.search(brace)
match_span(t) == IF fenced_span(t) # <<>> THEN fenced_span(t) ELSE brace_span(t)

RECURSIVE take_groups(_, _)
\* the greedy (?:,\d{3})+ : the digits of the groups ",ddd" that start t,
\* and what follows them, as <<digits, rest>>
take_groups(acc, t) ==
  IF Len(t) >= 2 /\ t[1] = "," /\ t[2] \notin Punct
  THEN take_groups(acc \o t[2], SubSeq(t, 3, Len(t)))
  ELSE <<acc, t>>

RECURSIVE fix_numeric_commas(_)
\* re.sub of "key": d{1,3}(,ddd)+ by the key and the number without commas
fix_numeric_commas(t) ==
  IF t = <<>> THEN <<>>
  ELSE IF /\ Len(t) >= 4 /\ t[1] = Key /\ t[2] \notin Punct
          /\ t[3] = "," /\ t[4] \notin Punct
       THEN LET g == take_groups(t[2], SubSeq(t, 3, Len(t)))
            IN <<Key, g[1]>> \o fix_numeric_commas(g[2])
       ELSE <<t[1]>> \o fix_numeric_commas(Tail(t))

RECURSIVE fix_trailing_commas(_)
\* re.sub(r",\s*(\}|\])", r"\1", json_str)
fix_trailing_commas(t) ==
  IF t = <<>> THEN <<>>
  ELSE IF Len(t) >= 2 /\ t[1] = "," /\ t[2] \in {"}", "]"}
       THEN <<t[2]>> \o fix_trailing_commas(SubSeq(t, 3, Len(t)))
       ELSE <<t[1]>> \o fix_trailing_commas(Tail(t))

\* json.loads: a recursive-descent parse of  value := number | object | array.
\* Each parse_* returns the tokens left after what it parsed, or ParseError.
ParseError == <<"JSONDecodeError">>

RECURSIVE parse_value(_), parse_members(_), parse_elements(_)
parse_value(t) ==
  IF t = <<>> THEN ParseError
  ELSE IF t[1] = "{"
       THEN IF Len(t) >= 2 /\ t[2] = "}" THEN SubSeq(t, 3, Len(t))
            ELSE parse_members(Tail(t))
  ELSE IF t[1] = "["
       THEN IF Len(t) >= 2 /\ t[2] = "]" THEN SubSeq(t, 3, Len(t))
            ELSE parse_elements(Tail(t))
  ELSE IF t[1] \notin Punct THEN Tail(t)
  ELSE ParseError

parse_members(t) ==
  IF t = <<>> \/ t[1] # Key THEN ParseError
  ELSE LET r == parse_value(Tail(t)) IN
       IF r = ParseError \/ r = <<>> THEN ParseError
       ELSE IF r[1] = "}" THEN Tail(r)
       ELSE IF r[1] = "," THEN parse_members(Tail(r))
       ELSE ParseError

parse_elements(t) ==
  LET r == parse_value(t) IN
  IF r = ParseError \/ r = <<>> THEN ParseError
  ELSE IF r[1] = "]" THEN Tail(r)
  ELSE IF r[1] = "," THEN parse_elements(Tail(r))
  ELSE ParseError

\* json.loads(s) succeeds iff s is exactly one value
json_loads_ok(t) == parse_value(t) = <<>>

NoData == [kind |-> "None"]
Raised(exc) == [kind |-> "raise", exc |-> exc]
\* the parsed object: its source tokens, and whether it is a non-empty dict
Parsed(t) == [kind |-> "dict", tokens |-> t, truthy |-> t # <<"{", "}">>]

\* variant without the except clause: the parse error leaves the function
extract_and_clean_json_no_except(t) ==
  LET m == match_span(t) IN
  IF m # <<>>
  THEN LET json_str == fix_trailing_commas(fix_numeric_commas(m)) IN
       IF json_loads_ok(json_str) THEN Parsed(json_str)
       ELSE Raised("JSONDecodeError")
  ELSE NoData

extract_and_clean_json(t) ==
  LET m == match_span(t) IN
  IF m # <<>>
  THEN LET json_str == fix_trailing_commas(fix_numeric_commas(m)) IN
       IF json_loads_ok(json_str) THEN Parsed(json_str)
       ELSE NoData
  ELSE NoData

(***************************************************************************)
(* results_to_dataframe                                                    *)
(*                                                                         *)
(* A dict is a function from the keys it has to their values.  The value   *)
(* of Page is an integer, the value of line_items is a LineItems record,   *)
(* every other value is a string or None.                                  *)
(***************************************************************************)
dict_get(d, key, default) == IF key \in DOMAIN d THEN d[key] ELSE default
\* d after d.pop(key, default)
dict_without(d, key) == [x \in DOMAIN d \ {key} |-> d[x]]
\* d after d[key] = v
dict_set(d, key, v) == (key :> v) @@ d
\* d after d.update(e)
dict_update(d, e) == e @@ d

\* a line_items value: a list of item dicts, or a string that
\* ast.literal_eval turns into a list (ok) or rejects (not ok)
LineItems(type, ok, val) == [type |-> type, ok |-> ok, val |-> val]
NoItems == LineItems("list", TRUE, <<>>)

\* items = result.pop('line_items', []) followed by the isinstance(items, str)
\* block: the list the flattening iterates over
items_of(result) ==
  LET items == dict_get(result, "line_items", NoItems) IN
  IF items.type = "str"
  THEN IF items.ok THEN items.val ELSE <<>>
  ELSE items.val

\* variant without  row['Page'] = page : a Page key of the item stays
flat_rows_item_page(result) ==
  LET rest == dict_without(result, "line_items")
      items == items_of(result)
  IN IF items # <<>>
     THEN [j \in 1..Len(items) |-> dict_update(rest, items[j])]
     ELSE <<dict_set(rest, "Page", dict_get(result, "Page", 0))>>
\* the rows one pass of the flattening loop appends to merged
flat_rows(result) ==
  LET page == dict_get(result, "Page", 0)
      rest == dict_without(result, "line_items")
      items == items_of(result)
  IN IF items # <<>>
     THEN [j \in 1..Len(items) |->
             dict_set(dict_update(rest, items[j]), "Page", page)]
     ELSE <<dict_set(rest, "Page", page)>>

\* the record the loop leaves behind in all_results: line_items popped, and
\* Page assigned when the record has no items
record_after(result) ==
  LET rest == dict_without(result, "line_items") IN
  IF items_of(result) # <<>> THEN rest
  ELSE dict_set(rest, "Page", dict_get(result, "Page", 0))

\* variant with has_signature resolved like every other field
agg_spec_sig_first ==
  << <<"Page", "format_page_ranges">>, <<"document_type", "first">>,
     <<"tax_invoice_date", "first">>, <<"vendor_name", "first">>,
     <<"vendor_tax_id", "first">>, <<"vendor_address", "first">>,
     <<"customer_name", "first">>, <<"customer_tax_id", "first">>,
     <<"customer_address", "first">>, <<"sub_total", "first">>,
     <<"vat_amount", "first">>, <<"grand_total", "first">>,
     <<"has_tax_invoice", "first">>, <<"has_signature", "first">>,
     <<"Description", "join">>, <<"Quantity", "join">>,
     <<"Unit Price", "join">>, <<"Amount", "join">> >>
\* the dict given to agg, in its order: <<column, how>>
agg_spec ==
  << <<"Page", "format_page_ranges">>, <<"document_type", "first">>,
     <<"tax_invoice_date", "first">>, <<"vendor_name", "first">>,
     <<"vendor_tax_id", "first">>, <<"vendor_address", "first">>,
     <<"customer_name", "first">>, <<"customer_tax_id", "first">>,
     <<"customer_address", "first">>, <<"sub_total", "first">>,
     <<"vat_amount", "first">>, <<"grand_total", "first">>,
     <<"has_tax_invoice", "first">>, <<"has_signature", "last">>,
     <<"Description", "join">>, <<"Quantity", "join">>,
     <<"Unit Price", "join">>, <<"Amount", "join">> >>

column_order ==
  <<"Page", "document_type", "tax_invoice_number", "tax_invoice_date",
    "vendor_name", "vendor_tax_id", "vendor_address",
    "customer_name", "customer_tax_id", "customer_address",
    "Description", "Quantity", "Unit Price", "Amount",
    "sub_total", "vat_amount", "grand_total",
    "has_tax_invoice", "has_signature">>

\* the invoice numbers of the model, in the order groupby sorts them
InvoiceNumbers == <<"INV-001", "INV-002">>

\* pd.DataFrame(merged).columns, as a set
df_columns(rows) == UNION {DOMAIN rows[j] : j \in DOMAIN rows}

\* a cell of pd.DataFrame(merged): a key the row lacks reads as null
cell(row, col) ==
  IF col \in DOMAIN row THEN row[col]
  ELSE IF col = "Page" THEN NaN ELSE None

RECURSIVE select_rows(_, _)
\* the rows of one group, in row order (rows with a null key are in no group)
select_rows(rows, inv) ==
  IF rows = <<>> THEN <<>>
  ELSE IF cell(rows[1], "tax_invoice_number") = inv
       THEN <<rows[1]>> \o select_rows(Tail(rows), inv)
       ELSE select_rows(Tail(rows), inv)

RECURSIVE non_null(_, _)
\* series.dropna() of a string column, as a list
non_null(rows, col) ==
  IF rows = <<>> THEN <<>>
  ELSE IF cell(rows[1], col) # None
       THEN <<cell(rows[1], col)>> \o non_null(Tail(rows), col)
       ELSE non_null(Tail(rows), col)

RECURSIVE join_lines(_)
\* '\n'.join(strs) on atomic strings
join_lines(strs) ==
  IF strs = <<>> THEN ""
  ELSE IF Len(strs) = 1 THEN strs[1]
  ELSE strs[1] \o "\n" \o join_lines(Tail(strs))

\* GroupBy 'first' / 'last': the first / last non-null value, else null
agg_first(rows, col) ==
  LET v == non_null(rows, col) IN IF v = <<>> THEN None ELSE v[1]
agg_last(rows, col) ==
  LET v == non_null(rows, col) IN IF v = <<>> THEN None ELSE v[Len(v)]

agg_cell(rows, col, how) ==
  IF how = "format_page_ranges"
  THEN format_page_ranges([j \in DOMAIN rows |-> cell(rows[j], col)])
  ELSE IF how = "first" THEN agg_first(rows, col)
  ELSE IF how = "last" THEN agg_last(rows, col)
  ELSE join_lines(non_null(rows, col))

\* one row of df.groupby(...).agg(spec).reset_index()
summary_row(rows, inv, spec) ==
  LET g == select_rows(rows, inv) IN
  [c \in {"tax_invoice_number"} \cup {spec[j][1] : j \in DOMAIN spec} |->
     IF c = "tax_invoice_number" THEN inv
     ELSE LET j == CHOOSE j \in DOMAIN spec : spec[j][1] = c
          IN agg_cell(g, c, spec[j][2])]

RECURSIVE grouped(_, _, _)
\* the rows of the grouped frame: one per key that occurs, in key order
grouped(rows, invs, spec) ==
  IF invs = <<>> THEN <<>>
  ELSE IF select_rows(rows, invs[1]) # <<>>
       THEN <<summary_row(rows, invs[1], spec)>>
            \o grouped(rows, Tail(invs), spec)
       ELSE grouped(rows, Tail(invs), spec)

RECURSIVE insert_by_page(_, _)
insert_by_page(sorted_rows, r) ==
  IF sorted_rows = <<>> THEN <<r>>
  ELSE IF extract_first_page_number(r["Page"])
            < extract_first_page_number(sorted_rows[1]["Page"])
       THEN <<r>> \o sorted_rows
       ELSE <<sorted_rows[1]>> \o insert_by_page(Tail(sorted_rows), r)

RECURSIVE sort_by_page(_)
\* sort_values(by='sort_page'): ascending, equal keys keep their order
sort_by_page(rows) ==
  IF rows = <<>> THEN <<>>
  ELSE insert_by_page(sort_by_page(SubSeq(rows, 1, Len(rows) - 1)),
                      rows[Len(rows)])

RECURSIVE select_columns(_, _)
\* [col for col in column_order if col in present]
select_columns(order, present) ==
  IF order = <<>> THEN <<>>
  ELSE IF order[1] \in present
       THEN <<order[1]>> \o select_columns(Tail(order), present)
       ELSE select_columns(Tail(order), present)

Table(columns, rows) == [kind |-> "table", columns |-> columns, rows |-> rows]
EmptyTable == Table(<<>>, <<>>)
NoTable == [kind |-> "none"]

\* everything results_to_dataframe does after the flattening loop
aggregate(rows) ==
  LET cols == df_columns(rows)
      missing == {agg_spec[j][1] : j \in DOMAIN agg_spec} \ cols
  IN IF "tax_invoice_number" \notin cols THEN EmptyTable
     ELSE IF missing # {}
     THEN \* agg: KeyError("Column(s) [...] do not exist")
          Raised("KeyError")
     ELSE LET g == grouped(rows, InvoiceNumbers, agg_spec)
              gcols == {"tax_invoice_number"}
                         \cup {agg_spec[j][1] : j \in DOMAIN agg_spec}
          IN IF \E j \in DOMAIN g :
                  extract_first_page_number(g[j]["Page"]) = -1
             THEN Raised("ValueError")
             ELSE Table(select_columns(column_order, gcols), sort_by_page(g))

(***************************************************************************)
(* Specification SpecFmt: format_page_ranges applied to every collection   *)
(* of at most MaxPagesLen entries, each a page of 1..MaxPage or NaN.       *)
(***************************************************************************)
NoOutcome == [kind |-> "none"]

IdleFmt == pages = <<>> /\ ranges_out = <<>>
IdleJson == text = <<>> /\ json_out = NoData
IdleOcr ==
  /\ start_page = 0 /\ end_page = 0 /\ n_images = 0 /\ idx = 0
  /\ events = <<>> /\ caller = "none" /\ content_type = "none"
  /\ outcome = NoOutcome
IdleDf == input0 = <<>> /\ k = 0 /\ merged = <<>> /\ df_out = NoTable

InitFmt ==
  /\ pc = "format_page_ranges"
  /\ pages \in SeqsUpTo(1..MaxPage \cup {NaN}, MaxPagesLen)
  /\ ranges_out = <<>>
  /\ IdleJson /\ IdleOcr /\ IdleDf /\ all_results = <<>>

FormatPageRanges ==
  /\ pc = "format_page_ranges"
  /\ ranges_out' = format_page_ranges(pages)
  /\ pc' = "returned"
  /\ UNCHANGED <<pages, jsonVars, ocrVars, dfVars, all_results>>

NextFmt == FormatPageRanges
SpecFmt == InitFmt /\ [][NextFmt]_vars

(***************************************************************************)
(* Specification SpecJson: extract_and_clean_json applied to every text of *)
(* at most MaxTextLen tokens.                                              *)
(***************************************************************************)
InitJson ==
  /\ pc = "extract_and_clean_json"
  /\ \E n \in 0..MaxTextLen : text \in [1..n -> Tokens]
  /\ json_out = NoData
  /\ IdleFmt /\ IdleOcr /\ IdleDf /\ all_results = <<>>

ExtractAndCleanJson ==
  /\ pc = "extract_and_clean_json"
  /\ json_out' = extract_and_clean_json(text)
  /\ pc' = "returned"
  /\ UNCHANGED <<text, fmtVars, ocrVars, dfVars, all_results>>

NextJson == ExtractAndCleanJson
SpecJson == InitJson /\ [][NextJson]_vars

(***************************************************************************)
(* Specification SpecOcr: a caller (an endpoint of main.py or app.py, or   *)
(* the Streamlit button handler) calls run_ocr_on_pdf and unpacks what it  *)
(* returns.  The external inference service answers each page's request    *)
(* with any of the replies of Replies.                                     *)
(***************************************************************************)
MaxImages == 3     \* number of pages of the uploaded PDF

Callers == {"main:/ocr/json", "main:/ocr/csv", "app:/json", "app:/csv",
            "app:button"}
JsonCallers == {"main:/ocr/json", "app:/json"}
CsvCallers == {"main:/ocr/csv", "app:/csv"}

\* texts the service may put in candidates[0].content.parts[0].text
ReplyTexts ==
  { <<FenceJson, "{", Key, Digits, "}", Fence>>,      \* fenced object
    <<"{", Key, Digits, ",", Digits, ",", "}">>,      \* bare, needs both repairs
    <<"{", "}">>,                                     \* the empty object
    <<Digits, ",", Digits>>,                          \* no braces at all
    <<"{", Key, "}", "}">> }                          \* braces, not JSON

\* what requests.post / response.ok / response.json() can produce
Replies ==
  {[kind |-> "ConnectionError", text |-> <<>>],   \* requests.post raises
   [kind |-> "not_ok", text |-> <<>>],            \* response.ok is False
   [kind |-> "JSONDecodeError", text |-> <<>>],   \* response.json() raises
   [kind |-> "KeyError", text |-> <<>>]}          \* no candidates/.../text
  \cup {[kind |-> "ok", text |-> t] : t \in ReplyTexts}

\* selected_images = images[start_page - 1:end_page], enumerated from
\* start_page: the last page number the loop visits
Min(a, b) == IF a <= b THEN a ELSE b
last_selected == Min(end_page, n_images)

InitOcr ==
  /\ pc = "handler"
  /\ caller \in Callers
  /\ content_type \in IF caller = "app:button"    \* st.file_uploader(type="pdf")
                      THEN {"application/pdf"}
                      ELSE {"application/pdf", "text/plain"}
  /\ n_images \in 1..MaxImages
  /\ start_page \in 1..MaxImages
  /\ end_page \in 1..MaxImages
  /\ idx = 0
  /\ events = <<>>
  /\ all_results = <<>>
  /\ outcome = NoOutcome
  /\ IdleFmt /\ IdleJson /\ IdleDf

\* the endpoints check the content type before they call run_ocr_on_pdf
RejectUpload ==
  /\ pc = "handler"
  /\ caller \in JsonCallers \cup CsvCallers
  /\ content_type # "application/pdf"
  /\ outcome' = [kind |-> "raise", exc |-> "HTTPException(400)"]
  /\ pc' = "done"
  /\ UNCHANGED <<start_page, end_page, n_images, idx, events, caller, content_type,
                 all_results, fmtVars, jsonVars, dfVars>>

\* run_ocr_on_pdf is entered: images, selected_images, all_results = []
CallRunOcr ==
  /\ pc = "handler"
  /\ caller \in JsonCallers \cup CsvCallers => content_type = "application/pdf"
  /\ idx' = start_page
  /\ all_results' = <<>>
  /\ pc' = "loop"
  /\ UNCHANGED <<start_page, end_page, n_images, events, caller, content_type,
                 outcome,
                 fmtVars, jsonVars, dfVars>>

\* the result handling of an OK response whose body has the expected shape
handle_reply(results, t, i) ==
  LET result == extract_and_clean_json(t) IN
  IF result.kind = "dict" /\ result.truthy
  THEN Append(results, [Page |-> i, tokens |-> result.tokens])
  ELSE results

\* one pass of the loop body up to, not including, time.sleep(1)
PagePost ==
  /\ pc = "loop"
  /\ idx <= last_selected
  /\ \E reply \in Replies :
       /\ events' = Append(events, <<"post", idx>>)
       /\ IF reply.kind \in {"ConnectionError", "JSONDecodeError", "KeyError"}
          THEN \* the exception leaves run_ocr_on_pdf and the caller
               /\ outcome' = [kind |-> "raise", exc |-> reply.kind]
               /\ pc' = "done"
               /\ UNCHANGED all_results
          ELSE /\ all_results' = IF reply.kind = "ok"
                                 THEN handle_reply(all_results, reply.text, idx)
                                 ELSE all_results
               /\ pc' = "sleep"
               /\ UNCHANGED outcome
  /\ UNCHANGED <<start_page, end_page, n_images, idx, caller, content_type,
                 fmtVars, jsonVars, dfVars>>

\* time.sleep(1), then the loop moves to the next image
Sleep ==
  /\ pc = "sleep"
  /\ events' = Append(events, <<"sleep", idx>>)
  /\ idx' = idx + 1
  /\ pc' = "loop"
  /\ UNCHANGED <<start_page, end_page, n_images, caller, content_type, outcome,
                 all_results,                 fmtVars, jsonVars, dfVars>>

\* return all_results
ReturnResults ==
  /\ pc = "loop"
  /\ idx > last_selected
  /\ pc' = "unpack"
  /\ UNCHANGED <<ocrVars, all_results, fmtVars, jsonVars, dfVars>>

\* the caller's  a, b = run_ocr_on_pdf(...)  and what it does with a and b
Unpack ==
  /\ pc = "unpack"
  /\ outcome' =
       IF Len(all_results) # 2
       THEN [kind |-> "raise", exc |-> "ValueError"]
       ELSE IF caller \in JsonCallers
            THEN \* JSONResponse(content=json_data): both names hold a record
                 [kind |-> "response", first |-> "dict", second |-> "dict",
                  body |-> all_results[1]]
            ELSE \* df.to_csv on a dict
                 [kind |-> "raise", exc |-> "AttributeError"]
  /\ pc' = "done"
  /\ UNCHANGED <<start_page, end_page, n_images, idx, events, caller, content_type,
                 all_results, fmtVars, jsonVars, dfVars>>

NextOcr == RejectUpload \/ CallRunOcr \/ PagePost \/ Sleep \/ ReturnResults
           \/ Unpack
SpecOcr == InitOcr /\ [][NextOcr]_vars

(***************************************************************************)
(* Specification SpecDf: results_to_dataframe on every list of at most     *)
(* MaxRecords records, as run_ocr_on_pdf builds them (Page set, strictly   *)
(* ascending).  One action per pass of the flattening loop, one for the    *)
(* rest of the function.                                                   *)
(***************************************************************************)
MaxRecords == 2    \* number of records in all_results

Absent == "<absent>"      \* the reply has no such key
InvoiceChoices == {Absent, None, "INV-001", "INV-002"}
Readings == {"A", "B", None}   \* what a page's reply says for every field

FirstFields ==
  {"document_type", "tax_invoice_date", "vendor_name", "vendor_tax_id",
   "vendor_address", "customer_name", "customer_tax_id", "customer_address",
   "sub_total", "vat_amount", "grand_total", "has_tax_invoice"}
FlagFields == {"has_tax_invoice", "has_signature"}

scalar_value(f, v) ==
  IF v = None THEN None
  ELSE IF f \in FlagFields THEN (IF v = "A" THEN "false" ELSE "true")
  ELSE f \o "/" \o v

with_invoice(d, inv) ==
  IF inv = Absent THEN d ELSE dict_set(d, "tax_invoice_number", inv)

\* a reply with every field of the prompt's schema
full_record(inv, v) ==
  with_invoice([f \in FirstFields \cup {"has_signature"} |-> scalar_value(f, v)],
               inv)
\* a reply that has only a few of the fields
sparse_record(inv, v) ==
  with_invoice([f \in {"vendor_name", "has_signature"} |-> scalar_value(f, v)],
               inv)

item1 ==
  ("Description" :> "Rental Charge") @@ ("Quantity" :> "1")
  @@ ("Unit Price" :> "3000.00") @@ ("Amount" :> "3000.00")
\* an item with a null cell, and with keys that the record has as well
item2 ==
  ("Description" :> "Toner") @@ ("Quantity" :> None)
  @@ ("Unit Price" :> "150.00") @@ ("Amount" :> "150.00")
  @@ ("vendor_name" :> "vendor_name/item") @@ ("Page" :> 99)

ItemsChoices ==
  {NoItems, LineItems("list", TRUE, <<item1, item2>>),
   LineItems("str", TRUE, <<item2>>), LineItems("str", FALSE, <<>>)}

RecordChoices ==
  {dict_set(full_record(inv, v), "line_items",
            LineItems("list", TRUE, <<item1>>)) :
     inv \in InvoiceChoices, v \in Readings}
  \cup {dict_set(full_record(inv, "A"), "line_items", li) :
          inv \in InvoiceChoices, li \in ItemsChoices}
  \cup {full_record(inv, "A") : inv \in InvoiceChoices}
  \cup {sparse_record(inv, "B") : inv \in InvoiceChoices}
  \cup {dict_set(sparse_record(inv, "B"), "line_items",
                 LineItems("list", TRUE, <<item1>>)) : inv \in InvoiceChoices}

InitDf ==
  /\ pc = "flatten"
  /\ \E pgs \in SUBSET (1..MaxImages) :
       /\ Cardinality(pgs) <= MaxRecords
       /\ \E recs \in [1..Cardinality(pgs) -> RecordChoices] :
            all_results = [j \in 1..Cardinality(pgs) |->
                             dict_set(recs[j], "Page", sorted(pgs)[j])]
  /\ input0 = all_results
  /\ k = 1
  /\ merged = <<>>
  /\ df_out = NoTable
  /\ IdleFmt /\ IdleJson /\ IdleOcr

\* one pass of  for result in all_results
FlattenRecord ==
  /\ pc = "flatten"
  /\ k <= Len(all_results)
  /\ merged' = merged \o flat_rows(all_results[k])
  /\ all_results' = [all_results EXCEPT ![k] = record_after(@)]
  /\ k' = k + 1
  /\ UNCHANGED <<pc, input0, df_out, fmtVars, jsonVars, ocrVars>>

\* from  df = pd.DataFrame(merged)  to the return
Aggregate ==
  /\ pc = "flatten"
  /\ k > Len(all_results)
  /\ df_out' = aggregate(merged)
  /\ pc' = "returned"
  /\ UNCHANGED <<all_results, input0, k, merged, fmtVars, jsonVars, ocrVars>>

NextDf == FlattenRecord \/ Aggregate
SpecDf == InitDf /\ [][NextDf]_vars

(***************************************************************************)
(* Properties                                                              *)
(***************************************************************************)
SetMax(S) == CHOOSE x \in S : \A y \in S : y <= x

\* the maximal runs of consecutive integers of a set, as <<first, last>>
MaximalRuns(S) ==
  {r \in S \X S : /\ r[1] <= r[2]
                  /\ \A x \in r[1]..r[2] : x \in S
                  /\ r[1] - 1 \notin S /\ r[2] + 1 \notin S}

RECURSIVE RunsAscending(_)
RunsAscending(R) ==
  IF R = {} THEN <<>>
  ELSE LET r == CHOOSE r \in R : \A q \in R : r[1] <= q[1]
       IN <<r>> \o RunsAscending(R \ {r})

RunText(r) == IF r[1] = r[2] THEN str(r[1]) ELSE str(r[1]) \o <<"-">> \o str(r[2])

RECURSIVE RunsText(_)
RunsText(runs) ==
  IF runs = <<>> THEN <<>>
  ELSE IF Len(runs) = 1 THEN RunText(runs[1])
  ELSE RunText(runs[1]) \o <<",", " ">> \o RunsText(Tail(runs))

\* C1: format_page_ranges returns, for any collection of pages (unordered,
\* with duplicates, with null entries), the maximal runs of consecutive
\* integers of the null-free set of pages, ascending, a run of one page
\* written "n" and a longer one "start-end", joined by ", "; the result for
\* an empty or all-null collection is the empty string.
C1_PageRangesAreMaximalRuns ==
  pc = "returned" =>
    LET S == {pages[i] : i \in DOMAIN pages} \ {NaN} IN
    /\ ranges_out = RunsText(RunsAscending(MaximalRuns(S)))
    /\ S = {} => ranges_out = <<>>

\* an unordered collection with a null and a duplicate, two runs
C1_Witness ==
  /\ pc = "returned"
  /\ pages = <<4, NaN, 3, 1, 4>>
  /\ ranges_out = <<"1", ",", " ", "3", "-", "4">>

\* the rows of merged that carry the invoice number inv, in row order
GroupOf(inv) ==
  SelectSeq(merged, LAMBDA r : /\ "tax_invoice_number" \in DOMAIN r
                               /\ r["tax_invoice_number"] = inv)

NonNullAt(rows, c) ==
  {i \in DOMAIN rows : c \in DOMAIN rows[i] /\ rows[i][c] # None}
FirstNonNull(rows, c) ==
  IF NonNullAt(rows, c) = {} THEN None ELSE rows[SetMin(NonNullAt(rows, c))][c]
LastNonNull(rows, c) ==
  IF NonNullAt(rows, c) = {} THEN None ELSE rows[SetMax(NonNullAt(rows, c))][c]

\* C2: in the aggregated table every invoice-level scalar field of a summary
\* row is the first non-null value of its group in row order, except
\* has_signature, which is the last non-null value of the group.
C2_TieBreakFirstExceptSignatureLast ==
  (pc = "returned" /\ df_out.kind = "table") =>
    \A j \in DOMAIN df_out.rows :
      LET out == df_out.rows[j]
          g == GroupOf(out["tax_invoice_number"])
      IN /\ \A c \in FirstFields : out[c] = FirstNonNull(g, c)
         /\ out["has_signature"] = LastNonNull(g, "has_signature")

\* a group whose rows say has_signature false then true and disagree on
\* vendor_name: the summary row has true and the first vendor_name
C2_Witness ==
  /\ pc = "returned" /\ df_out.kind = "table"
  /\ \E j \in DOMAIN df_out.rows :
       LET out == df_out.rows[j]
           g == GroupOf(out["tax_invoice_number"])
       IN /\ Len(g) >= 2
          /\ g[1]["has_signature"] = "false"
          /\ g[Len(g)]["has_signature"] = "true"
          /\ g[1]["vendor_name"] # None /\ g[Len(g)]["vendor_name"] # None
          /\ g[1]["vendor_name"] # g[Len(g)]["vendor_name"]
          /\ out["has_signature"] = "true"
          /\ out["vendor_name"] = g[1]["vendor_name"]

\* the non-null invoice numbers that occur in the flat rows
InvoicesIn(rows) ==
  {rows[i]["tax_invoice_number"] :
     i \in {j \in DOMAIN rows : "tax_invoice_number" \in DOMAIN rows[j]}}
  \ {None}

\* C3: for every sequence of flat rows the aggregation returns a table with
\* exactly one summary row per distinct non-null invoice number of the rows
\* and no other row; when no row carries an invoice number the table is
\* empty, and the call does not fail.
C3_OneSummaryRowPerInvoice ==
  pc = "returned" =>
    /\ df_out.kind = "table"
    /\ {df_out.rows[j]["tax_invoice_number"] : j \in DOMAIN df_out.rows}
         = InvoicesIn(merged)
    /\ Len(df_out.rows) = Cardinality(InvoicesIn(merged))

\* the line items of a record as the reply gave them
LineItemsOf(rec) ==
  IF "line_items" \notin DOMAIN rec THEN <<>>
  ELSE IF rec["line_items"].ok THEN rec["line_items"].val ELSE <<>>
RowCount(rec) == IF LineItemsOf(rec) = <<>> THEN 1 ELSE Len(LineItemsOf(rec))

RECURSIVE RowsBefore(_)
\* the number of flat rows of the records before the j-th
RowsBefore(j) == IF j <= 1 THEN 0 ELSE RowsBefore(j - 1) + RowCount(input0[j - 1])

\* C4: the flattening loop emits one row for a record without line items and
\* N rows, in line-item order, for a record with N >= 1 line items; every
\* row has Page = the record's page and every invoice-level field of the
\* record, with the line item's value where the line item has the same key.
C4_FlatteningRows ==
  /\ Len(merged) = RowsBefore(k)
  /\ \A j \in 1..(k - 1) :
       LET rec == input0[j]
           items == LineItemsOf(rec)
       IN \A n \in 1..RowCount(rec) :
            LET row == merged[RowsBefore(j) + n] IN
            /\ row["Page"] = rec["Page"]
            /\ \A f \in DOMAIN rec \ {"line_items", "Page"} :
                 /\ f \in DOMAIN row
                 /\ row[f] = IF items # <<>> /\ f \in DOMAIN items[n]
                             THEN items[n][f] ELSE rec[f]
            /\ items # <<>> =>
                 \A f \in DOMAIN items[n] \ {"Page"} :
                   f \in DOMAIN row /\ row[f] = items[n][f]

\* a record with two line items, one of them with keys of the record, and a
\* record without line items have both been flattened
C4_Witness ==
  /\ pc = "returned"
  /\ Len(merged) = 3
  /\ \E j \in DOMAIN input0 :
       /\ Len(LineItemsOf(input0[j])) = 2
       /\ \E n \in 1..2 : "vendor_name" \in DOMAIN LineItemsOf(input0[j])[n]
  /\ \E j \in DOMAIN input0 : LineItemsOf(input0[j]) = <<>>

\* the request reached run_ocr_on_pdf
Accepted == content_type = "application/pdf"
Selected == start_page..last_selected
Posted(p) == \E e \in DOMAIN events : events[e] = <<"post", p>>

\* C5: a page whose inference call fails or returns a malformed reply
\* contributes no record and the loop goes on: whenever the handling of an
\* accepted request has ended, every page of the range has been requested
\* and no exception of a page's call has left the function.
C5_BadPageNeverAbortsBatch ==
  (pc = "done" /\ Accepted) =>
    /\ \A p \in Selected : Posted(p)
    /\ ~(outcome.kind = "raise"
         /\ outcome.exc \in {"ConnectionError", "JSONDecodeError", "KeyError"})

\* the span the extractor parses, after the two repairs
RepairedSpan(t) == fix_trailing_commas(fix_numeric_commas(match_span(t)))
HasBraceSpan(t) ==
  \E i, j \in DOMAIN t : i < j /\ t[i] = "{" /\ t[j] = "}"

\* C6: extract_and_clean_json never raises; it returns a parsed structure or
\* no data.  A text without a brace-delimited substring gives no data, and so
\* does a candidate span that does not parse after the two repairs.
C6_ExtractNeverRaises ==
  pc = "returned" =>
    /\ json_out.kind \in {"None", "dict"}
    /\ ~HasBraceSpan(text) => json_out = NoData
    /\ (match_span(text) # <<>> /\ ~json_loads_ok(RepairedSpan(text)))
         => json_out = NoData
    /\ json_out.kind = "dict" => json_loads_ok(json_out.tokens)

\* a text with a candidate span that the repairs do not make parse
C6_Witness ==
  /\ pc = "returned"
  /\ text = <<"{", Key, ",", ",", "}">>
  /\ json_out = NoData

\* C7: when the flat rows have an invoice-number column the aggregation
\* completes, and the columns of its table are the canonical columns that
\* occur in the data, in canonical order; a canonical column that does not
\* occur in the data is left out.
C7_ColumnsPresentInCanonicalOrder ==
  (pc = "returned" /\ "tax_invoice_number" \in df_columns(merged)) =>
    /\ df_out.kind = "table"
    /\ df_out.columns =
         SelectSeq(column_order, LAMBDA c : c \in df_columns(merged))

RECURSIVE FlattenAll(_)
FlattenAll(recs) ==
  IF recs = <<>> THEN <<>> ELSE flat_rows(recs[1]) \o FlattenAll(Tail(recs))

\* C8: results_to_dataframe does not change the records it is given: at every
\* point of the call each record of all_results equals what it was at the
\* call, and flattening the list again gives the same rows.
C8_RecordsNotMutated ==
  /\ all_results = input0
  /\ pc = "returned" => FlattenAll(all_results) = merged

\* C9: a caller that unpacks the return value of run_ocr_on_pdf into two
\* names gets the list of records and the summary table, and the handling
\* of an accepted request ends with a response.
C9_CallersGetListAndTable ==
  (pc = "done" /\ Accepted) =>
    /\ outcome.kind = "response"
    /\ outcome.first = "list"
    /\ outcome.second = "DataFrame"

\* C10: the calls are sequential in ascending page order, each followed by
\* the delay before the next one starts; once run_ocr_on_pdf has ended there
\* has been exactly one call per selected page, and the records are in
\* strictly ascending page order, each with the page index of its call.
C10_SequentialOneCallPerPage ==
  /\ \A e \in DOMAIN events :
       events[e] = IF e % 2 = 1
                   THEN <<"post", start_page + (e - 1) \div 2>>
                   ELSE <<"sleep", start_page + (e - 2) \div 2>>
  /\ \A i \in DOMAIN all_results :
       /\ Posted(all_results[i].Page)
       /\ i > 1 => all_results[i - 1].Page < all_results[i].Page
  /\ (pc \in {"unpack", "done"} /\ Accepted) =>
       /\ Len(events) = 2 * Cardinality(Selected)
       /\ \A p \in Selected : Posted(p)

====
